---- MODULE Spec2Model ----
(***************************************************************************)
(* Model of src/src/lob/match_engine.cpp: a continuous limit order book    *)
(* matching engine (class MatchEngine) with its two public operations,     *)
(* insert and cancel.                                                      *)
(*                                                                         *)
(* Prices and sizes are doubles in the source; the model draws them from   *)
(* a finite tick / lot grid of integers, on which <, <=, min and - behave  *)
(* exactly as they do on finite doubles that were never rounded.           *)
(*                                                                         *)
(* A std::map book is modelled by the sequence of its (key, PriceLevel)    *)
(* entries in the iteration order of its comparator: bids descending       *)
(* (std::greater), asks ascending (std::less).  begin() is index 1, end()  *)
(* is Len + 1.  order_map is a function whose domain is its key set.       *)
(*                                                                         *)
(* History (ghost) data, absent from the source and never read by the      *)
(* modelled code: the field arr of an order (the number of the call that   *)
(* brought it to rest), the field maker_arr of a fill (the arr of its      *)
(* maker), and the variables lastOp, ret, step and cancelled.              *)
(***************************************************************************)
EXTENDS Integers, Sequences, FiniteSets, TLC

\* ---------------------------------------------------------------- bounds
MaxOps == 3
MaxOpsValid == 4
MaxPrice == 2
MaxSize == 2
MaxTs == 1
MaxSizeSweep == 3

OrderIds == {"", "a", "b"}
Sides == {"BUY", "SELL"}
Prices == 0..MaxPrice
Sizes == 0..MaxSize
Timestamps == (0 - 1)..MaxTs

VARIABLES bids, asks, order_map, fills, ret, lastOp, step, cancelled

vars == <<bids, asks, order_map, fills, ret, lastOp, step, cancelled>>

\* ------------------------------------------------------------ data types
Order(id, s, p, sz, ts, n) ==
    [order_id |-> id, side |-> s, price |-> p, size |-> sz, timestamp |-> ts, arr |-> n]

Fill(taker, maker, p, sz, ts, n) ==
    [taker_order_id |-> taker, maker_order_id |-> maker, price |-> p, size |-> sz,
     timestamp |-> ts, maker_arr |-> n]

PriceLevel(p, os) == [price |-> p, orders |-> os]

\* ------------------------------------------------------ container helpers
Min(a, b) == IF a <= b THEN a ELSE b

\* vector::erase(it): the sequence without its i-th element
EraseAt(s, i) == SubSeq(s, 1, i - 1) \o SubSeq(s, i + 1, Len(s))

\* vector element / map entry replaced in place
ReplaceAt(s, i, x) == [s EXCEPT ![i] = x]

\* sequence with x put in front of position i
InsertAt(s, i, x) == SubSeq(s, 1, i - 1) \o <<x>> \o SubSeq(s, i, Len(s))

\* order_map.clear()
MapClear(om, id) == <<>>

\* order_map.erase(key)
MapErase(om, id) == [k \in (DOMAIN om) \ {id} |-> om[k]]

\* an assignment that is lost
MapPutLost(om, id, v) == om

\* order_map[key] = value
MapPut(om, id, v) == [k \in (DOMAIN om) \cup {id} |-> IF k = id THEN v ELSE om[k]]

\* map::find(price): index of the entry with that key, Len + 1 (end) if none
BookFind(book, p) ==
    IF \E k \in 1..Len(book) : book[k].price = p
    THEN CHOOSE k \in 1..Len(book) : book[k].price = p
    ELSE Len(book) + 1

\* a comparator that orders both books descending
BeforeDescending(s, p, q) == p > q

\* std::greater<double> (bids) and std::less<double> (asks)
Before(s, p, q) == IF s = "BUY" THEN p > q ELSE p < q

\* map::operator[](price): the book with an empty level created at its sorted
\* place if the key is absent
BookIndex(book, s, p) ==
    IF BookFind(book, p) <= Len(book) THEN book
    ELSE InsertAt(book,
                  1 + Cardinality({k \in 1..Len(book) : Before(s, book[k].price, p)}),
                  PriceLevel(p, <<>>))

\* ------------------------------------------------------------- matching
\* the taker stops at the first ask level priced above its limit
BuyStopsAtEqual(level_price, order_price) == level_price >= order_price

\* match_buy: if (ask_it->first > order->price) break;
BuyStops(level_price, order_price) == level_price > order_price

\* the taker stops at the first bid level priced at or below its limit
SellStopsAtEqual(level_price, order_price) == level_price <= order_price

\* match_sell: if (bid_it->first < order->price) break;
SellStops(level_price, order_price) == level_price < order_price

\* a match for the whole of what the taker still wants
MatchSizeTaker(taker_size, maker_size) == taker_size

\* a match for the whole of what the maker still offers
MatchSizeMaker(taker_size, maker_size) == maker_size

\* double match_size = std::min(order->size, maker->size);
MatchSize(taker_size, maker_size) == Min(taker_size, maker_size)

\* fills.emplace_back(order->order_id, maker->order_id, level price, match_size,
\*                    order->timestamp)
MakeFill(order, maker, level_price, match_size) ==
    Fill(order.order_id, maker.order_id, level_price, match_size, order.timestamp,
         maker.arr)

\* a fully filled maker that keeps its index entry
KeepFilledMaker(om, maker) == om

\* order_map.erase(maker->order_id) for a fully filled maker
EraseFilledMaker(om, maker) == MapErase(om, maker.order_id)

MatchResult(b, o, fs, om, t) ==
    [book |-> b, order |-> o, fills |-> fs, order_map |-> om, thrown |-> t]

\* an inner loop that takes a maker for filled only below zero
RECURSIVE match_level_below_zero(_, _, _, _, _, _)
match_level_below_zero(orders, order_it, order, level_price, fs, om) ==
    IF ~(order_it <= Len(orders) /\ order.size > 0)
    THEN [orders |-> orders, order |-> order, fills |-> fs, order_map |-> om]
    ELSE LET maker == orders[order_it] IN
         IF maker.size <= 0
         THEN match_level_below_zero(EraseAt(orders, order_it), order_it, order,
                                     level_price, fs, om)
         ELSE LET match_size == MatchSize(order.size, maker.size)
                  f == MakeFill(order, maker, level_price, match_size)
                  order2 == [order EXCEPT !.size = @ - match_size]
                  maker2 == [maker EXCEPT !.size = @ - match_size]
              IN  IF maker2.size < 0
                  THEN match_level_below_zero(EraseAt(orders, order_it), order_it,
                                              order2, level_price, Append(fs, f),
                                              EraseFilledMaker(om, maker))
                  ELSE match_level_below_zero(ReplaceAt(orders, order_it, maker2),
                                              order_it + 1, order2, level_price,
                                              Append(fs, f), om)

\* The inner while loop of match_buy and of match_sell (the two are the same
\* text): order_it walks the level from its head.  Makers are never null, every
\* order being created by make_shared in insert.
RECURSIVE match_level(_, _, _, _, _, _)
match_level(orders, order_it, order, level_price, fs, om) ==
    IF ~(order_it <= Len(orders) /\ order.size > 0)
    THEN [orders |-> orders, order |-> order, fills |-> fs, order_map |-> om]
    ELSE LET maker == orders[order_it] IN
         IF maker.size <= 0
         THEN match_level(EraseAt(orders, order_it), order_it, order, level_price, fs, om)
         ELSE LET match_size == MatchSize(order.size, maker.size)
                  f == MakeFill(order, maker, level_price, match_size)
                  order2 == [order EXCEPT !.size = @ - match_size]
                  maker2 == [maker EXCEPT !.size = @ - match_size]
              IN  IF maker2.size <= 0
                  THEN match_level(EraseAt(orders, order_it), order_it, order2,
                                   level_price, Append(fs, f), EraseFilledMaker(om, maker))
                  ELSE match_level(ReplaceAt(orders, order_it, maker2), order_it + 1,
                                   order2, level_price, Append(fs, f), om)

\* The outer while loop of match_buy: ask_it walks the ask book from begin().
RECURSIVE match_buy_loop(_, _, _, _, _)
match_buy_loop(book, ask_it, order, fs, om) ==
    IF ~(ask_it <= Len(book) /\ order.size > 0)
    THEN MatchResult(book, order, fs, om, FALSE)
    ELSE IF BuyStops(book[ask_it].price, order.price)
    THEN MatchResult(book, order, fs, om, FALSE)
    ELSE LET r == match_level(book[ask_it].orders, 1, order, book[ask_it].price, fs, om)
         IN  IF r.orders = <<>>
             THEN match_buy_loop(EraseAt(book, ask_it), ask_it, r.order, r.fills,
                                 r.order_map)
             ELSE match_buy_loop(
                      ReplaceAt(book, ask_it, PriceLevel(book[ask_it].price, r.orders)),
                      ask_it + 1, r.order, r.fills, r.order_map)

match_buy(order, askbook, om) ==
    IF order.size <= 0
    THEN MatchResult(askbook, order, <<>>, om, TRUE)
    ELSE match_buy_loop(askbook, 1, order, <<>>, om)

\* The outer while loop of match_sell: bid_it walks the bid book from begin().
RECURSIVE match_sell_loop(_, _, _, _, _)
match_sell_loop(book, bid_it, order, fs, om) ==
    IF ~(bid_it <= Len(book) /\ order.size > 0)
    THEN MatchResult(book, order, fs, om, FALSE)
    ELSE IF SellStops(book[bid_it].price, order.price)
    THEN MatchResult(book, order, fs, om, FALSE)
    ELSE LET r == match_level(book[bid_it].orders, 1, order, book[bid_it].price, fs, om)
         IN  IF r.orders = <<>>
             THEN match_sell_loop(EraseAt(book, bid_it), bid_it, r.order, r.fills,
                                  r.order_map)
             ELSE match_sell_loop(
                      ReplaceAt(book, bid_it, PriceLevel(book[bid_it].price, r.orders)),
                      bid_it + 1, r.order, r.fills, r.order_map)

match_sell(order, bidbook, om) ==
    IF order.size <= 0
    THEN MatchResult(bidbook, order, <<>>, om, TRUE)
    ELSE match_sell_loop(bidbook, 1, order, <<>>, om)

\* --------------------------------------------------------------- resting
\* the order put at the head of the level
PushFront(os, o) == <<o>> \o os

\* level.orders.push_back(order)
PushBack(os, o) == Append(os, o)

\* book[order->price].orders.push_back(order)
BookPush(book, s, order) ==
    LET b == BookIndex(book, s, order.price)
        k == BookFind(b, order.price)
    IN  ReplaceAt(b, k, PriceLevel(order.price, PushBack(b[k].orders, order)))

add_to_book(order, bidbook, askbook, om) ==
    IF order.size <= 0 \/ order.price <= 0 \/ order.order_id = ""
    THEN [bids |-> bidbook, asks |-> askbook, order_map |-> om, thrown |-> TRUE]
    ELSE [bids |-> IF order.side = "BUY" THEN BookPush(bidbook, "BUY", order)
                   ELSE bidbook,
          asks |-> IF order.side = "BUY" THEN askbook
                   ELSE BookPush(askbook, "SELL", order),
          order_map |-> MapPut(om, order.order_id,
                               [side |-> order.side, price |-> order.price]),
          thrown |-> FALSE]

\* ------------------------------------------------------------ operations
Call(op, id, s, p, sz, ts) ==
    [op |-> op, order_id |-> id, side |-> s, price |-> p, size |-> sz, timestamp |-> ts]

Init ==
    /\ bids = <<>>
    /\ asks = <<>>
    /\ order_map = <<>>
    /\ fills = <<>>
    /\ ret = "none"
    /\ lastOp = Call("none", "", "NONE", 0, 0, 0)
    /\ step = 0
    /\ cancelled = {}

\* argument checks that leave out the price
InsertInvalidNoPrice(order_id, price, size, timestamp) ==
    order_id = "" \/ size <= 0 \/ timestamp < 0

\* the argument checks at the head of insert
InsertInvalid(order_id, price, size, timestamp) ==
    order_id = "" \/ price <= 0 \/ size <= 0 \/ timestamp < 0

\* what insert leaves behind and returns: the state after matching and resting,
\* the fill list, and how the call ended ("fills": it returned the list)
InsertOutcome(order_id, side, price, size, timestamp) ==
    LET order == Order(order_id, side, price, size, timestamp, step + 1)
        m == IF side = "BUY" THEN match_buy(order, asks, order_map)
             ELSE match_sell(order, bids, order_map)
        bidsM == IF side = "BUY" THEN bids ELSE m.book
        asksM == IF side = "BUY" THEN m.book ELSE asks
        a == add_to_book(m.order, bidsM, asksM, m.order_map)
    IN  IF InsertInvalid(order_id, price, size, timestamp)
        THEN [bids |-> bids, asks |-> asks, order_map |-> order_map, fills |-> <<>>,
              ret |-> "invalid_argument"]
        ELSE IF m.thrown
        THEN [bids |-> bids, asks |-> asks, order_map |-> order_map, fills |-> <<>>,
              ret |-> "runtime_error"]
        ELSE IF m.order.size > 0
        THEN IF a.thrown
             THEN [bids |-> bidsM, asks |-> asksM, order_map |-> m.order_map,
                   fills |-> <<>>, ret |-> "runtime_error"]
             ELSE [bids |-> a.bids, asks |-> a.asks, order_map |-> a.order_map,
                   fills |-> m.fills, ret |-> "fills"]
        ELSE [bids |-> bidsM, asks |-> asksM, order_map |-> m.order_map,
              fills |-> m.fills, ret |-> "fills"]

insert(order_id, side, price, size, timestamp) ==
    LET r == InsertOutcome(order_id, side, price, size, timestamp) IN
    /\ bids' = r.bids
    /\ asks' = r.asks
    /\ order_map' = r.order_map
    /\ fills' = r.fills
    /\ ret' = r.ret
    /\ lastOp' = Call("insert", order_id, side, price, size, timestamp)
    /\ step' = step + 1
    /\ cancelled' = IF r.ret = "fills" THEN cancelled \ {order_id} ELSE cancelled

\* orders.erase(std::remove_if(..., order->order_id == order_id), orders.end())
RemoveId(os, order_id) == SelectSeq(os, LAMBDA o : o.order_id # order_id)

\* a cancel branch that leaves an emptied level in the book
CancelInBookNoPrune(book, price, order_id) ==
    LET it == BookFind(book, price) IN
    IF it > Len(book) THEN book
    ELSE ReplaceAt(book, it,
                   PriceLevel(book[it].price, RemoveId(book[it].orders, order_id)))

\* the branch of cancel for one side: find the level, drop the orders with the
\* id, erase the level if it is empty
CancelInBook(book, price, order_id) ==
    LET it == BookFind(book, price) IN
    IF it > Len(book) THEN book
    ELSE LET os == RemoveId(book[it].orders, order_id) IN
         IF os = <<>> THEN EraseAt(book, it)
         ELSE ReplaceAt(book, it, PriceLevel(book[it].price, os))

\* a cancel that reports success for an id the index does not hold
CancelOutcomeAlwaysTrue(order_id) ==
    IF order_id = ""
    THEN [bids |-> bids, asks |-> asks, order_map |-> order_map,
          ret |-> "invalid_argument"]
    ELSE IF order_id \notin DOMAIN order_map
    THEN [bids |-> bids, asks |-> asks, order_map |-> order_map, ret |-> "true"]
    ELSE LET e == order_map[order_id] IN
         [bids |-> IF e.side = "BUY" THEN CancelInBook(bids, e.price, order_id)
                   ELSE bids,
          asks |-> IF e.side = "BUY" THEN asks
                   ELSE CancelInBook(asks, e.price, order_id),
          order_map |-> MapErase(order_map, order_id),
          ret |-> "true"]

\* what cancel leaves behind and returns
CancelOutcome(order_id) ==
    IF order_id = ""
    THEN [bids |-> bids, asks |-> asks, order_map |-> order_map,
          ret |-> "invalid_argument"]
    ELSE IF order_id \notin DOMAIN order_map
    THEN [bids |-> bids, asks |-> asks, order_map |-> order_map, ret |-> "false"]
    ELSE LET e == order_map[order_id] IN
         [bids |-> IF e.side = "BUY" THEN CancelInBook(bids, e.price, order_id)
                   ELSE bids,
          asks |-> IF e.side = "BUY" THEN asks
                   ELSE CancelInBook(asks, e.price, order_id),
          order_map |-> MapErase(order_map, order_id),
          ret |-> "true"]

cancel(order_id) ==
    LET r == CancelOutcome(order_id) IN
    /\ bids' = r.bids
    /\ asks' = r.asks
    /\ order_map' = r.order_map
    /\ fills' = <<>>
    /\ ret' = r.ret
    /\ lastOp' = Call("cancel", order_id, "NONE", 0, 0, 0)
    /\ step' = step + 1
    /\ cancelled' = IF r.ret = "invalid_argument" THEN cancelled
                    ELSE cancelled \cup {order_id}

\* any call, malformed arguments included
DoInsert ==
    /\ step < MaxOps
    /\ \E id \in OrderIds, s \in Sides, p \in Prices, sz \in Sizes, ts \in Timestamps :
           insert(id, s, p, sz, ts)

DoCancel ==
    /\ step < MaxOps
    /\ \E id \in OrderIds : cancel(id)

Next == DoInsert \/ DoCancel

Spec == Init /\ [][Next]_vars

\* longer runs of calls whose arguments pass the validation
DoInsertValid ==
    /\ step < MaxOpsValid
    /\ \E id \in OrderIds \ {""}, s \in Sides, p \in 1..MaxPrice, sz \in 1..MaxSize,
          ts \in 0..MaxTs :
           insert(id, s, p, sz, ts)

DoCancelValid ==
    /\ step < MaxOpsValid
    /\ \E id \in OrderIds \ {""} : cancel(id)

NextValid == DoInsertValid \/ DoCancelValid

SpecValid == Init /\ [][NextValid]_vars

\* short runs of valid calls with takers large enough to consume two makers and
\* still come to rest
DoInsertSweep ==
    /\ step < MaxOps
    /\ \E id \in OrderIds \ {""}, s \in Sides, p \in 1..MaxPrice,
          sz \in 1..MaxSizeSweep, ts \in 0..MaxTs :
           insert(id, s, p, sz, ts)

DoCancelSweep ==
    /\ step < MaxOps
    /\ \E id \in OrderIds \ {""} : cancel(id)

NextSweep == DoInsertSweep \/ DoCancelSweep

SpecSweep == Init /\ [][NextSweep]_vars

\* ------------------------------------------------- observations of a state
\* the orders of a level / of a book, as the set of their positions
LevelPrices(book) == {book[k].price : k \in 1..Len(book)}

\* positions <<k, i>>: the i-th order of the k-th level
Slots(book) ==
    UNION {{<<k, i>> : i \in 1..Len(book[k].orders)} : k \in 1..Len(book)}

\* every resting order, tagged with the book and the level it sits in
Resting ==
    {[book |-> "BUY", level |-> bids[sl[1]].price, pos |-> sl[2],
      order |-> bids[sl[1]].orders[sl[2]]] : sl \in Slots(bids)}
    \cup
    {[book |-> "SELL", level |-> asks[sl[1]].price, pos |-> sl[2],
      order |-> asks[sl[1]].orders[sl[2]]] : sl \in Slots(asks)}

RestingIds == {r.order.order_id : r \in Resting}

SetMax(S) == CHOOSE x \in S : \A y \in S : y <= x
SetMin(S) == CHOOSE x \in S : \A y \in S : x <= y

\* the last call was an insert that returned its fill list
Inserted == lastOp.op = "insert" /\ ret = "fills"

\* ------------------------------------------------------------------ C1
\* C1: after every insert or cancel, whenever both books are non-empty the
\* highest bid level price is strictly below the lowest ask level price.
C1_Uncrossed ==
    (bids # <<>> /\ asks # <<>>) =>
        SetMax(LevelPrices(bids)) < SetMin(LevelPrices(asks))

\* an insert matched and left orders resting on both sides
C1_Witness == Inserted /\ fills # <<>> /\ bids # <<>> /\ asks # <<>>

\* ------------------------------------------------------------------ C2
\* C2: an insert whose order_id is resting when the call begins is rejected with
\* a validation error: no fills, and bids, asks and the index stay as they were.
C2_DuplicateRejected ==
    [][(lastOp'.op = "insert" /\ lastOp'.order_id \in RestingIds)
          => /\ ret' = "invalid_argument"
             /\ fills' = <<>>
             /\ bids' = bids /\ asks' = asks /\ order_map' = order_map]_vars

\* ------------------------------------------------------------------ C3
\* C3: in every reachable state no two resting orders share an order_id.
C3_UniqueRestingIds ==
    \A r1 \in Resting, r2 \in Resting :
        r1.order.order_id = r2.order.order_id => r1 = r2

\* ------------------------------------------------------------------ C4
\* C4: every resting order is indexed, and its index entry holds the order's
\* side and the price of the level it sits in.
C4_RestingIndexed ==
    \A r \in Resting :
        /\ r.order.order_id \in DOMAIN order_map
        /\ order_map[r.order.order_id] = [side |-> r.book, price |-> r.level]
        /\ r.order.side = r.book

\* ------------------------------------------------------------------ C5
\* C5: every index entry id -> (s, p) points to an order that exists: an order
\* with that id and remaining size > 0 sits in the level at price p of the book
\* of side s.
C5_IndexPointsToOrder ==
    \A id \in DOMAIN order_map :
        \E r \in Resting :
            /\ r.order.order_id = id
            /\ r.order.size > 0
            /\ r.book = order_map[id].side
            /\ r.order.side = order_map[id].side
            /\ r.level = order_map[id].price

\* an insert filled a maker completely while other orders stay indexed
C5_Witness ==
    /\ Inserted
    /\ \E k \in 1..Len(fills) : fills[k].maker_order_id \notin DOMAIN order_map
    /\ DOMAIN order_map # {}

\* ------------------------------------------------------------------ C6
Names(f, id) == f.maker_order_id = id \/ f.taker_order_id = id

\* C6: once cancel(id) has been called, and as long as id is not inserted
\* again, every later cancel(id) returns false and no later fill names id as
\* maker or as taker.
C6_CancelledStaysOut ==
    [][\A id \in cancelled :
          /\ (lastOp'.op = "cancel" /\ lastOp'.order_id = id) => ret' = "false"
          /\ id \in cancelled' => \A k \in 1..Len(fills') : ~Names(fills'[k], id)]_vars

\* ------------------------------------------------------------------ C7
\* a book without the orders of an id, and without the levels this empties
Pruned(book, id) ==
    SelectSeq([k \in 1..Len(book) |->
                  PriceLevel(book[k].price,
                             SelectSeq(book[k].orders, LAMBDA o : o.order_id # id))],
              LAMBDA l : l.orders # <<>>)

\* C7: cancel(id) of a resting id returns true and removes exactly one order, the
\* one with that id: one resting order fewer, every other order keeps its level,
\* its relative position and its size, an emptied level is removed, and the index
\* entry of id is erased.
C7_CancelRemovesOne ==
    [][(lastOp'.op = "cancel" /\ lastOp'.order_id \in RestingIds)
          => /\ ret' = "true"
             /\ Cardinality(Resting') = Cardinality(Resting) - 1
             /\ bids' = Pruned(bids, lastOp'.order_id)
             /\ asks' = Pruned(asks, lastOp'.order_id)
             /\ lastOp'.order_id \notin DOMAIN order_map']_vars

\* ------------------------------------------------------------------ C8
\* the book the taker of the last insert matched against
OppositeBook == IF lastOp.side = "BUY" THEN asks ELSE bids

\* price q is strictly better for the taker than price p
Better(q, p) == IF lastOp.side = "BUY" THEN q < p ELSE q > p

\* C8: the fills of one insert come in price priority (non-decreasing prices for
\* a BUY taker, non-increasing for a SELL taker), and no maker is filled while an
\* order at a strictly better price remains resting on its side.
C8_PricePriority ==
    Inserted =>
        /\ \A i \in 1..Len(fills), j \in 1..Len(fills) :
               i < j => ~Better(fills[j].price, fills[i].price)
        /\ \A k \in 1..Len(fills), q \in LevelPrices(OppositeBook) :
               ~Better(q, fills[k].price)

\* an insert swept two price levels
C8_Witness ==
    /\ Inserted
    /\ \E i \in 1..Len(fills), j \in 1..Len(fills) : fills[i].price # fills[j].price

\* ------------------------------------------------------------------ C9
\* C9: every level keeps its orders in the order in which they came to rest
\* (head = earliest); among the fills of one insert at one price the makers
\* appear in that order, and no maker is filled while an order that came to rest
\* earlier at the same price still rests.
C9_TimePriority ==
    /\ \A r1 \in Resting, r2 \in Resting :
           (r1.book = r2.book /\ r1.level = r2.level /\ r1.pos < r2.pos)
               => r1.order.arr < r2.order.arr
    /\ Inserted =>
           /\ \A i \in 1..Len(fills), j \in 1..Len(fills) :
                  (i < j /\ fills[i].price = fills[j].price)
                      => fills[i].maker_arr < fills[j].maker_arr
           /\ \A k \in 1..Len(fills), r \in Resting :
                  (r.book # lastOp.side /\ r.level = fills[k].price)
                      => r.order.arr >= fills[k].maker_arr

\* an insert filled two makers of one level and left a later one resting there
C9_Witness ==
    /\ Inserted
    /\ \E i \in 1..Len(fills), j \in 1..Len(fills) :
           /\ i < j
           /\ fills[i].price = fills[j].price
           /\ \E r \in Resting : r.book # lastOp.side /\ r.level = fills[j].price

\* ----------------------------------------------------------------- C10
RECURSIVE SumSizes(_, _)
SumSizes(fs, k) == IF k = 0 THEN 0 ELSE fs[k].size + SumSizes(fs, k - 1)

\* C10: every fill of insert(id, side, p, size, ts) has taker_order_id = id and
\* timestamp = ts; its maker was resting on the opposite side when the call
\* began; its price is that maker's resting price, which crosses p; its size is
\* > 0 and is the minimum of what the taker and the maker had left at the match.
C10_FillFields ==
    [][lastOp'.op = "insert" =>
          \A k \in 1..Len(fills') :
              /\ fills'[k].taker_order_id = lastOp'.order_id
              /\ fills'[k].timestamp = lastOp'.timestamp
              /\ fills'[k].size > 0
              /\ IF lastOp'.side = "BUY" THEN fills'[k].price <= lastOp'.price
                 ELSE fills'[k].price >= lastOp'.price
              /\ \E r \in Resting :
                     /\ r.book # lastOp'.side
                     /\ r.order.side # lastOp'.side
                     /\ r.order.order_id = fills'[k].maker_order_id
                     /\ r.order.arr = fills'[k].maker_arr
                     /\ r.order.price = fills'[k].price
                     /\ r.level = fills'[k].price
                     /\ fills'[k].size =
                            Min(lastOp'.size - SumSizes(fills', k - 1), r.order.size)]_vars

\* an insert was filled below its limit, against a maker larger than the taker
C10_Witness ==
    /\ Inserted
    /\ fills # <<>>
    /\ fills[1].price # lastOp.price
    /\ fills[1].size = lastOp.size
    /\ \E r \in Resting : r.order.arr = fills[1].maker_arr

\* ----------------------------------------------------------------- C11
RECURSIVE SumOrders(_)
SumOrders(S) ==
    IF S = {} THEN 0
    ELSE LET r == CHOOSE x \in S : TRUE IN r.order.size + SumOrders(S \ {r})

\* total remaining size resting in the book of one side, and in both
BookTotal(s) == SumOrders({r \in Resting : r.book = s})
BidTotal == BookTotal("BUY")
AskTotal == BookTotal("SELL")
RestingTotal == SumOrders(Resting)

\* the sum of the sizes of the fill list of the last call
FilledTotal == SumSizes(fills, Len(fills))

\* what the taker of the last call has left: the size it rests with, 0 if it
\* does not rest (arr = step marks the order the last call brought to rest)
TakerRemaining ==
    LET T == {r \in Resting : r.order.arr = step} IN
    IF T = {} THEN 0 ELSE (CHOOSE r \in T : TRUE).order.size

\* the resting orders a cancel(id) takes out: those with the id in the level the
\* index names
CancelTargets(id) ==
    IF id \in DOMAIN order_map
    THEN {r \in Resting : /\ r.order.order_id = id
                          /\ r.book = order_map[id].side
                          /\ r.level = order_map[id].price}
    ELSE {}

\* C11: size conservation.  For every insert that returns, the fill sizes sum to
\* the submitted size minus what the taker has left, and to the total reduction
\* of the remaining sizes on the opposite book.  Over a run, resting size plus
\* twice the filled size equals submitted minus cancelled size: every insert
\* adds (size - 2 * filled) to the resting total, every cancel takes off exactly
\* the size it cancels, and a rejected call changes nothing.
C11_SizeConservation ==
    [][/\ (lastOp'.op = "insert" /\ ret' = "fills") =>
              /\ FilledTotal' = lastOp'.size - TakerRemaining'
              /\ FilledTotal' = IF lastOp'.side = "BUY" THEN AskTotal - AskTotal'
                                 ELSE BidTotal - BidTotal'
              /\ RestingTotal' + 2 * FilledTotal' = RestingTotal + lastOp'.size
       /\ (lastOp'.op = "insert" /\ ret' # "fills") =>
              FilledTotal' = 0 /\ RestingTotal' = RestingTotal
       /\ lastOp'.op = "cancel" =>
              /\ FilledTotal' = 0
              /\ RestingTotal' =
                     RestingTotal - SumOrders(CancelTargets(lastOp'.order_id))]_vars

\* an insert consumed one maker wholly and another partly
C11_Witness ==
    /\ Inserted
    /\ Len(fills) >= 2
    /\ TakerRemaining = 0
    /\ \E r \in Resting : r.order.arr = fills[Len(fills)].maker_arr

\* ----------------------------------------------------------------- C12
\* the orders of the level of a book at price p, none if there is no such level
LevelOrders(book, p) ==
    IF \E k \in 1..Len(book) : book[k].price = p
    THEN book[CHOOSE k \in 1..Len(book) : book[k].price = p].orders
    ELSE <<>>

\* the levels of a book at prices other than p
OtherLevels(book, p) == SelectSeq(book, LAMBDA l : l.price # p)

\* price q on the opposite side crosses the limit p of a taker of side s
Crosses(s, q, p) == IF s = "BUY" THEN q <= p ELSE q >= p

\* own book before / after: the taker (call c) came to rest with rem left, as
\* the last order of the level at its limit price, nothing else changed
RestedLast(before, after, c, rem) ==
    LET lvl == LevelOrders(after, c.price) IN
    /\ lvl # <<>>
    /\ SubSeq(lvl, 1, Len(lvl) - 1) = LevelOrders(before, c.price)
    /\ lvl[Len(lvl)].order_id = c.order_id
    /\ lvl[Len(lvl)].side = c.side
    /\ lvl[Len(lvl)].price = c.price
    /\ lvl[Len(lvl)].timestamp = c.timestamp
    /\ lvl[Len(lvl)].size = rem
    /\ OtherLevels(after, c.price) = OtherLevels(before, c.price)

\* C12: after an accepted insert(id, side, p, size, ts) with rem = size minus the
\* sum of its fill sizes: if rem > 0 the taker rests as the last order of the
\* level at price p of its own side (created if absent) with remaining rem and
\* is indexed as (side, p); if rem = 0 the fill list is non-empty, the own book
\* is unchanged and the index gains no entry.  An insert that finds no crossing
\* level returns no fills and rests with its full size.
C12_Residual ==
    [][(lastOp'.op = "insert" /\ ret' = "fills") =>
          LET c == lastOp'
              rem == c.size - FilledTotal'
          IN  /\ rem >= 0
              /\ rem > 0 =>
                     /\ IF c.side = "BUY" THEN RestedLast(bids, bids', c, rem)
                        ELSE RestedLast(asks, asks', c, rem)
                     /\ c.order_id \in DOMAIN order_map'
                     /\ order_map'[c.order_id] = [side |-> c.side, price |-> c.price]
              /\ rem = 0 =>
                     /\ fills' # <<>>
                     /\ IF c.side = "BUY" THEN bids' = bids ELSE asks' = asks
                     /\ \A id \in DOMAIN order_map' :
                            id \in DOMAIN order_map /\ order_map'[id] = order_map[id]
              /\ (\A q \in LevelPrices(IF c.side = "BUY" THEN asks ELSE bids) :
                      ~Crosses(c.side, q, c.price))
                     => fills' = <<>> /\ rem = c.size]_vars

\* a partly filled taker came to rest in a new level next to an older one
C12_Witness ==
    /\ Inserted
    /\ fills # <<>>
    /\ TakerRemaining > 0
    /\ OtherLevels(IF lastOp.side = "BUY" THEN bids ELSE asks, lastOp.price) # <<>>

\* ----------------------------------------------------------------- C13
\* the best price of a non-empty book: the highest bid, the lowest ask
BestPrice(s, book) ==
    IF s = "BUY" THEN SetMax(LevelPrices(book)) ELSE SetMin(LevelPrices(book))

\* with bid book bk and ask book ak, the best opposite level crosses the limit p
\* of a taker of side s
BestCrosses(s, p, bk, ak) ==
    IF s = "BUY" THEN ak # <<>> /\ BestPrice("SELL", ak) <= p
    ELSE bk # <<>> /\ BestPrice("BUY", bk) >= p

\* no opposite level crosses the limit p of a taker of side s
NoneCrosses(s, p, bk, ak) ==
    \A q \in LevelPrices(IF s = "BUY" THEN ak ELSE bk) : ~Crosses(s, q, p)

\* C13: an insert returns a non-empty fill list exactly when, as the call
\* begins, the best opposite level crosses its limit (equality included); the
\* taker comes to rest only when no opposite level at a crossing price remains;
\* an insert that does not cross leaves the opposite book unchanged.
C13_ExhaustiveMatch ==
    [][(lastOp'.op = "insert" /\ ret' = "fills") =>
          LET c == lastOp' IN
          /\ fills' # <<>> <=> BestCrosses(c.side, c.price, bids, asks)
          /\ TakerRemaining' > 0 => NoneCrosses(c.side, c.price, bids', asks')
          /\ ~BestCrosses(c.side, c.price, bids, asks) =>
                 IF c.side = "BUY" THEN asks' = asks ELSE bids' = bids]_vars

\* an insert priced exactly at the best opposite level was filled there, and
\* rests with what is left next to a worse opposite level
C13_Witness ==
    /\ Inserted
    /\ fills # <<>>
    /\ fills[1].price = lastOp.price
    /\ TakerRemaining > 0
    /\ OppositeBook # <<>>

\* ----------------------------------------------------------------- C14
\* C14: round trip.  An insert that returns no fills, followed immediately by
\* cancel of the same id, leaves bids, asks and the index as they were before
\* the insert.  (The primed outcome is what that cancel, a function of the state
\* the insert leaves, does in the state after the insert.)
C14_InsertCancelRoundTrip ==
    [][(lastOp'.op = "insert" /\ ret' = "fills" /\ fills' = <<>>) =>
          /\ (CancelOutcome(lastOp.order_id).ret)' = "true"
          /\ (CancelOutcome(lastOp.order_id).bids)' = bids
          /\ (CancelOutcome(lastOp.order_id).asks)' = asks
          /\ (CancelOutcome(lastOp.order_id).order_map)' = order_map]_vars

\* ----------------------------------------------------------------- C15
\* C15: cancel(id) with a non-empty id that is not resting returns false, raises
\* no error and leaves bids, asks and the index unchanged (so the same holds of
\* every repetition).
C15_CancelUnknown ==
    [][(lastOp'.op = "cancel" /\ lastOp'.order_id # ""
            /\ lastOp'.order_id \notin RestingIds)
          => /\ ret' = "false"
             /\ bids' = bids /\ asks' = asks /\ order_map' = order_map]_vars

\* cancel of an id cancelled or filled before returned false beside resting orders
C15_Witness ==
    /\ lastOp.op = "cancel"
    /\ ret = "false"
    /\ lastOp.order_id \notin RestingIds
    /\ Resting # {}

\* ----------------------------------------------------------------- C16
\* C16: cancel emits no fill and, for the (side, price) the index holds for the
\* id, leaves unchanged the book of the opposite side, every level of the own
\* side at another price and every index entry of another id; a cancel that
\* finds no entry changes nothing.
C16_CancelFrame ==
    [][lastOp'.op = "cancel" =>
          /\ fills' = <<>>
          /\ IF lastOp'.order_id \in DOMAIN order_map
             THEN LET e == order_map[lastOp'.order_id] IN
                  /\ IF e.side = "BUY" THEN asks' = asks ELSE bids' = bids
                  /\ IF e.side = "BUY"
                     THEN OtherLevels(bids', e.price) = OtherLevels(bids, e.price)
                     ELSE OtherLevels(asks', e.price) = OtherLevels(asks, e.price)
                  /\ \A k \in ((DOMAIN order_map) \cup (DOMAIN order_map'))
                                 \ {lastOp'.order_id} :
                         /\ k \in DOMAIN order_map
                         /\ k \in DOMAIN order_map'
                         /\ order_map'[k] = order_map[k]
             ELSE bids' = bids /\ asks' = asks /\ order_map' = order_map]_vars

\* a cancel removed an order and orders of another id rest on both sides
C16_Witness ==
    /\ lastOp.op = "cancel"
    /\ ret = "true"
    /\ bids # <<>>
    /\ asks # <<>>
    /\ DOMAIN order_map # {}

\* ----------------------------------------------------------------- C17
Unchanged == bids' = bids /\ asks' = asks /\ order_map' = order_map

\* C17: an insert with an empty id, a price <= 0, a size <= 0 or a timestamp < 0,
\* and a cancel with an empty id, fail with a validation error before any
\* mutation (no fill, bids, asks and index unchanged); an insert whose arguments
\* pass never fails, so no call commits part of its work.
C17_ValidationFirst ==
    [][/\ (lastOp'.op = "insert"
             /\ (lastOp'.order_id = "" \/ lastOp'.price <= 0 \/ lastOp'.size <= 0
                    \/ lastOp'.timestamp < 0))
          => ret' = "invalid_argument" /\ fills' = <<>> /\ Unchanged
       /\ (lastOp'.op = "cancel" /\ lastOp'.order_id = "")
          => ret' = "invalid_argument" /\ fills' = <<>> /\ Unchanged
       /\ (lastOp'.op = "insert"
             /\ lastOp'.order_id # "" /\ lastOp'.price > 0 /\ lastOp'.size > 0
             /\ lastOp'.timestamp >= 0)
          => ret' = "fills"
       /\ ret' \in {"invalid_argument", "runtime_error"} => fills' = <<>> /\ Unchanged]_vars

\* an insert that would have matched was rejected for one bad argument
C17_Witness ==
    /\ lastOp.op = "insert"
    /\ ret = "invalid_argument"
    /\ lastOp.price > 0
    /\ BestCrosses(lastOp.side, lastOp.price, bids, asks)

\* ----------------------------------------------------------------- C18
\* C18: after every insert or cancel no level present in the bid book or in the
\* ask book is empty.
C18_NoEmptyLevel ==
    /\ \A k \in 1..Len(bids) : bids[k].orders # <<>>
    /\ \A k \in 1..Len(asks) : asks[k].orders # <<>>

\* a cancel emptied the only level there was, and the books are empty
C18_Witness ==
    /\ lastOp.op = "cancel"
    /\ ret = "true"
    /\ bids = <<>>
    /\ asks = <<>>

\* ----------------------------------------------------------------- C19
\* the order that rested with arrival number n is gone / is still there
Rests(n) == \E r \in Resting : r.order.arr = n

\* C19: after every insert or cancel every resting order has remaining size > 0;
\* the matcher drops no maker without a fill (its cleanup branch for a maker of
\* size <= 0 is never taken): every order an insert takes out of the opposite
\* book is named by a fill for the whole of its remaining size.
C19_PositiveSizes ==
    [][/\ \A r \in Resting' : r.order.size > 0
       /\ lastOp'.op = "insert" =>
              \A r \in Resting :
                  (r.book # lastOp'.side /\ ~Rests(r.order.arr)')
                      => \E k \in 1..Len(fills') :
                             /\ fills'[k].maker_arr = r.order.arr
                             /\ fills'[k].size = r.order.size]_vars

\* an insert filled a maker wholly and removed it, beside a maker still resting
C19_Witness ==
    /\ Inserted
    /\ \E k \in 1..Len(fills) : ~Rests(fills[k].maker_arr)
    /\ OppositeBook # <<>>

\* ----------------------------------------------------------------- C20
\* among the resting orders R: one has arrival number n / the one that has it
RestsIn(R, n) == \E r \in R : r.order.arr = n
RestingAt(R, n) == CHOOSE r \in R : r.order.arr = n

====
